---- MODULE Spec2Model ----
(***************************************************************************)
(* Ordered (Bayer matrix) dithering, after src/src/main.rs.                *)
(*                                                                         *)
(* The model covers the two ditherers (apply_bayer_dithering_grayscale,    *)
(* apply_bayer_dithering_color), the three threshold matrices and the      *)
(* luminance estimator compute_luminance.  The estimator works on IEEE-754 *)
(* binary64 values; they are modelled exactly, as fixed-point numbers in   *)
(* units of 2^-56 held in three limbs of 22 bits, with round-to-nearest,   *)
(* ties-to-even after every multiplication and addition.                   *)
(***************************************************************************)
EXTENDS Integers, Sequences, FiniteSets

VARIABLES
    color,           \* args.color: FALSE = grayscale ditherer, TRUE = color ditherer
    bayer_option,    \* the BayerMatrixOption argument: "M2", "M4" or "M8"
    preserve_order,  \* the PreserveOrder argument: "Dark" or "Light" ("NA" in grayscale)
    image,           \* the decoded input image: [width, height, data]
    gray_image,      \* image.to_luma8() (grayscale ditherer only)
    width,           \* local (width, height) of the running ditherer
    height,
    output_image,    \* the buffer the ditherer builds: [width, height, data]
    writes,          \* number of put_pixel calls per coordinate in this pass
    x,               \* loop variables of the pixel loop
    y,
    pc,              \* "start", "loop", "any", "done", "lum"
    rerun,           \* TRUE once the ditherer has been invoked a second time
    prev_output,     \* the buffer returned by the first invocation
    prev_order,      \* the PreserveOrder of the first invocation
    pixel,           \* the argument of compute_luminance (estimator runs)
    luminance        \* its result

vars == <<color, bayer_option, preserve_order, image, gray_image, width, height,
          output_image, writes, x, y, pc, rerun, prev_output, prev_order,
          pixel, luminance>>

(***************************************************************************)
(* Bounds of the model.                                                    *)
(***************************************************************************)
MaxWidth == 9
MaxHeight == 9
AnyMaxWidth == 2
AnyMaxHeight == 2
LumSteps == 5

(***************************************************************************)
(* The threshold matrices, row-major, as 1-based sequences: the cell the   *)
(* code reads as matrix[index] is Matrix[index + 1].                       *)
(***************************************************************************)
\* the order-2 matrix scaled to the 8-bit range
BAYER_MATRIX_2X2_scaled == <<0, 128, 192, 64>>

BAYER_MATRIX_2X2 == <<0, 2, 3, 1>>

BAYER_MATRIX_4X4 ==
    <<0, 128, 32, 160, 192, 64, 224, 96, 48, 176, 16, 144, 240, 112, 208, 80>>

BAYER_MATRIX_8X8 ==
    <<0, 128, 32, 160, 48, 176, 16, 144, 192, 64, 224, 96, 240, 112, 208, 80, 32, 160, 48, 176, 16,
      144, 32, 160, 160, 96, 224, 64, 240, 80, 192, 128, 48, 176, 16, 144, 32, 160, 48, 176, 176,
      224, 96, 64, 240, 80, 192, 128, 16, 144, 32, 160, 48, 176, 16, 144, 144, 80, 208, 128, 192,
      128, 160, 96>>

BayerMatrixOption == {"M2", "M4", "M8"}

PreserveOrder == {"Dark", "Light"}

\* the match on bayer_option: (bayer_matrix, matrix_size)
SelectMatrix(option) ==
    CASE option = "M2" -> <<BAYER_MATRIX_2X2, 2>>
      [] option = "M4" -> <<BAYER_MATRIX_4X4, 4>>
      [] option = "M8" -> <<BAYER_MATRIX_8X8, 8>>

(***************************************************************************)
(* binary64 arithmetic.  A non-negative f64 below 2^10 that is a multiple  *)
(* of 2^-56 is <<hi, mid, lo>>, standing for                               *)
(*   (hi * 2^44 + mid * 2^22 + lo) * 2^-56.                                *)
(* Every value compute_luminance meets has this form: the three weights    *)
(* have 53-bit significands with exponents -2, -1 and -4, and the channels *)
(* are integers.                                                           *)
(***************************************************************************)
Limb == 2^22

Carry(hi, mid, lo) ==
    LET m == mid + (lo \div Limb)
    IN  <<hi + (m \div Limb), m % Limb, lo % Limb>>

\* number of significant bits of n
RECURSIVE BitLen(_)
BitLen(n) == IF n = 0 THEN 0 ELSE 1 + BitLen(n \div 2)

\* round to 53 significant bits, to nearest, ties to even
RoundF64(v) ==
    LET d == IF v[1] = 0 THEN 0 ELSE 44 + BitLen(v[1]) - 53
    IN  IF d <= 0 THEN v
        ELSE LET q    == 2^d
                 r    == v[3] % q
                 base == v[3] - r
                 up   == \/ 2 * r > q
                         \/ 2 * r = q /\ (base \div q) % 2 = 1
             IN  Carry(v[1], v[2], base + (IF up THEN q ELSE 0))

\* weight * (channel as f64)
F64Mul(weight, channel) ==
    RoundF64(Carry(weight[1] * channel, weight[2] * channel, weight[3] * channel))

F64Add(a, b) == RoundF64(Carry(a[1] + b[1], a[2] + b[2], a[3] + b[3]))

F64Less(a, b) ==
    \/ a[1] < b[1]
    \/ a[1] = b[1] /\ a[2] < b[2]
    \/ a[1] = b[1] /\ a[2] = b[2] /\ a[3] < b[3]

\* f64::clamp(min, max)
F64Clamp(v, min, max) ==
    IF F64Less(v, min) THEN min ELSE IF F64Less(max, v) THEN max ELSE v

\* `as u8` of a non-negative f64: truncation toward zero, saturating at 255
F64AsU8(v) ==
    LET t == v[1] \div 2^12
    IN  IF t > 255 THEN 255 ELSE t

\* the literals of compute_luminance and of its clamp
W_R == <<1224, 2952790, 67108>>       \* 0.299 = 0x1.322d0e5604189p-2
W_G == <<2404, 1476395, 33552>>       \* 0.587 = 0x1.2c8b439581062p-1
W_B == <<466, 3959422, 4093641>>      \* 0.114 = 0x1.d2f1a9fbe76c9p-4
F64_0 == <<0, 0, 0>>                  \* 0.0
F64_255 == <<255 * 2^12, 0, 0>>       \* 255.0

\* a mistyped blue weight: 0.104 = 0x1.a9fbe76c8b439p-4 in place of 0.114
compute_luminance_mistyped(p) ==
    F64AsU8(F64Clamp(F64Add(F64Add(F64Mul(W_R, p[1]), F64Mul(W_G, p[2])),
                            F64Mul(<<425, 4127195, 570425>>, p[3])), F64_0, F64_255))

compute_luminance(p) ==
    F64AsU8(F64Clamp(F64Add(F64Add(F64Mul(W_R, p[1]), F64Mul(W_G, p[2])),
                            F64Mul(W_B, p[3])), F64_0, F64_255))

(***************************************************************************)
(* Images.  An image is [width, height, data], data a function on the      *)
(* coordinates <<x, y>>, 0 <= x < width, 0 <= y < height.                  *)
(***************************************************************************)
Coordinates(w, h) == (0 .. w - 1) \X (0 .. h - 1)

NoImage == [width |-> 0, height |-> 0, data |-> <<>>]

\* ImageBuffer::new(width, height): every channel of every pixel is 0
NewImage(w, h, zero) ==
    [width |-> w, height |-> h, data |-> [p \in Coordinates(w, h) |-> zero]]

\* put_pixel(x, y, value) on an in-bounds coordinate
PutPixel(img, px, py, value) == [img EXCEPT !.data[<<px, py>>] = value]

\* The inputs of the model: pixel number i = x + y * width of the image with
\* pattern <<base, step>> has channels (base[c] + step[c] * i) mod 256.
\* The grayscale ditherer is run on decoded Luma8 images (R = G = B).
GrayPatterns ==
    {<<<<k, k, k>>, <<0, 0, 0>>>> : k \in {0, 128, 255}}
    \cup {<<<<0, 0, 0>>, <<s, s, s>>>> : s \in {1, 16, 37}}

ColorPatterns ==
    {<<c, <<0, 0, 0>>>> : c \in {<<128, 128, 128>>, <<255, 255, 255>>, <<0, 0, 0>>}}
    \cup {<<<<0, 0, 0>>, s>> : s \in {<<1, 2, 3>>, <<16, 32, 48>>, <<37, 101, 211>>}}

PatternImage(w, h, pat) ==
    [width |-> w, height |-> h,
     data |-> [p \in Coordinates(w, h) |->
                 LET i == p[1] + p[2] * w
                 IN  <<(pat[1][1] + pat[2][1] * i) % 256,
                       (pat[1][2] + pat[2][2] * i) % 256,
                       (pat[1][3] + pat[2][3] * i) % 256>>]]

Inputs(is_color, maxw, maxh) ==
    {PatternImage(w, h, pat) :
        w \in 0 .. maxw, h \in 0 .. maxh,
        pat \in IF is_color THEN ColorPatterns ELSE GrayPatterns}

\* image.to_luma8() of a decoded Luma8 image: the same intensities
ToLuma8(img) ==
    [width |-> img.width, height |-> img.height,
     data |-> [p \in Coordinates(img.width, img.height) |-> <<img.data[p][1]>>]]

(***************************************************************************)
(* The per-pixel computation.                                              *)
(***************************************************************************)
\* the column taken without its modulo
ThresholdIndex_unwrapped(px, py, matrix_size) ==
    (py % matrix_size) * matrix_size + px

\* the matrix walked by the number of pixels already put, not by (x, y)
ThresholdIndex_scan(px, py, matrix_size) ==
    Cardinality({p \in DOMAIN writes : writes[p] > 0}) % (matrix_size * matrix_size)

ThresholdIndex(px, py, matrix_size) ==
    (py % matrix_size) * matrix_size + (px % matrix_size)

\* bayer_matrix[index]
Threshold(px, py, option) ==
    LET sel == SelectMatrix(option)
    IN  sel[1][ThresholdIndex(px, py, sel[2]) + 1]

\* the comparison made non-strict
GrayIntensity_ge(intensity, threshold) ==
    IF intensity >= threshold THEN 255 ELSE 0

\* grayscale: new_intensity
GrayIntensity(intensity, threshold) ==
    IF intensity > threshold THEN 255 ELSE 0

\* the two arms of the match exchanged
ColorAlpha_exchanged(intensity, threshold, order) ==
    CASE order = "Light" -> (IF intensity > threshold THEN 0 ELSE 255)
      [] order = "Dark"  -> (IF intensity > threshold THEN 255 ELSE 0)

\* the Dark arm compared non-strictly
ColorAlpha_dark_ge(intensity, threshold, order) ==
    CASE order = "Light" -> (IF intensity > threshold THEN 255 ELSE 0)
      [] order = "Dark"  -> (IF intensity >= threshold THEN 0 ELSE 255)

\* color: the match on preserve_order
ColorAlpha(intensity, threshold, order) ==
    CASE order = "Light" -> (IF intensity > threshold THEN 255 ELSE 0)
      [] order = "Dark"  -> (IF intensity > threshold THEN 0 ELSE 255)

\* the body of the pixel loop: the pixel put at (px, py)
DitheredPixel(px, py) ==
    IF color
    THEN LET p == image.data[<<px, py>>]
         IN  <<p[1], p[2], p[3],
               ColorAlpha(compute_luminance(<<p[1], p[2], p[3]>>),
                          Threshold(px, py, bayer_option), preserve_order)>>
    ELSE <<GrayIntensity(gray_image.data[<<px, py>>][1],
                         Threshold(px, py, bayer_option))>>

(***************************************************************************)
(* The ditherers as a state machine.                                       *)
(***************************************************************************)
InitRun(maxw, maxh) ==
    /\ color \in BOOLEAN
    /\ bayer_option \in BayerMatrixOption
    /\ preserve_order \in (IF color THEN PreserveOrder ELSE {"NA"})
    /\ image \in Inputs(color, maxw, maxh)
    /\ gray_image = NoImage
    /\ width = 0
    /\ height = 0
    /\ output_image = NoImage
    /\ writes = <<>>
    /\ x = 0
    /\ y = 0
    /\ pc = "start"
    /\ rerun = FALSE
    /\ prev_output = NoImage
    /\ prev_order = "NA"
    /\ pixel = <<0, 0, 0>>
    /\ luminance = 0

Init == InitRun(MaxWidth, MaxHeight)

\* width and height exchanged in the allocation
OutputDimensions_swapped(w, h) == <<h, w>>

\* the dimensions of the buffer allocated for an input of w by h pixels
OutputDimensions(w, h) == <<w, h>>

\* everything before the pixel loop: to_luma8 (grayscale), dimensions, the
\* allocation of output_image
Prologue(loop_pc) ==
    /\ pc = "start"
    /\ gray_image' = IF color THEN gray_image ELSE ToLuma8(image)
    /\ width' = IF color THEN image.width ELSE gray_image'.width
    /\ height' = IF color THEN image.height ELSE gray_image'.height
    /\ output_image' =
           LET d == OutputDimensions(width', height')
           IN  NewImage(d[1], d[2], IF color THEN <<0, 0, 0, 0>> ELSE <<0>>)
    /\ writes' = [p \in Coordinates(width', height') |-> 0]
    /\ x' = 0
    /\ y' = 0
    /\ pc' = IF width' = 0 \/ height' = 0 THEN "done" ELSE loop_pc
    /\ UNCHANGED <<color, bayer_option, preserve_order, image, rerun,
                   prev_output, prev_order, pixel, luminance>>

Alloc == Prologue("loop")

\* one iteration of the inner loop, at (x, y), and the loop headers after it
Step ==
    /\ pc = "loop"
    /\ output_image' = PutPixel(output_image, x, y, DitheredPixel(x, y))
    /\ writes' = [writes EXCEPT ![<<x, y>>] = @ + 1]
    /\ IF x + 1 < width
       THEN x' = x + 1 /\ y' = y /\ pc' = "loop"
       ELSE IF y + 1 < height
            THEN x' = 0 /\ y' = y + 1 /\ pc' = "loop"
            ELSE x' = x /\ y' = y /\ pc' = "done"
    /\ UNCHANGED <<color, bayer_option, preserve_order, image, gray_image, width,
                   height, rerun, prev_output, prev_order, pixel, luminance>>

\* the second invocation of the ditherer on the same image with the same
\* matrix; the color ditherer may be given either policy
Rerun ==
    /\ pc = "done"
    /\ ~rerun
    /\ rerun' = TRUE
    /\ prev_output' = output_image
    /\ prev_order' = preserve_order
    /\ preserve_order' \in (IF color THEN PreserveOrder ELSE {"NA"})
    /\ gray_image' = NoImage
    /\ width' = 0
    /\ height' = 0
    /\ output_image' = NoImage
    /\ writes' = <<>>
    /\ x' = 0
    /\ y' = 0
    /\ pc' = "start"
    /\ UNCHANGED <<color, bayer_option, image, pixel, luminance>>

Next == Alloc \/ Step \/ Rerun

Spec == Init /\ [][Next]_vars

(***************************************************************************)
(* The same pixel loop with its iterations taken in any order: the second  *)
(* invocation visits the pixels one at a time, each once, in an arbitrary  *)
(* order.                                                                  *)
(***************************************************************************)
AnyInit == InitRun(AnyMaxWidth, AnyMaxHeight)

AllocAny == rerun /\ Prologue("any")

StepAny ==
    /\ pc = "any"
    /\ \E p \in Coordinates(width, height) :
          /\ writes[p] = 0
          /\ output_image' = PutPixel(output_image, p[1], p[2], DitheredPixel(p[1], p[2]))
          /\ writes' = [writes EXCEPT ![p] = @ + 1]
    /\ pc' = IF \A p \in Coordinates(width, height) : writes'[p] > 0
             THEN "done" ELSE "any"
    /\ UNCHANGED <<color, bayer_option, preserve_order, image, gray_image, width,
                   height, x, y, rerun, prev_output, prev_order, pixel, luminance>>

AnyNext == Alloc \/ Step \/ Rerun \/ AllocAny \/ StepAny

AnyOrderSpec == AnyInit /\ [][AnyNext]_vars

(***************************************************************************)
(* The luminance estimator alone: compute_luminance applied to a pixel,    *)
(* then to the pixel with one channel one step brighter.  A channel is     *)
(* stepped through its whole range while the other two sit on LumStarts,   *)
(* and otherwise while every channel stays within LumSteps of a start.     *)
(***************************************************************************)
LumStarts == {0, 62, 123, 187, 250}

LumInit ==
    /\ color = TRUE
    /\ bayer_option = "M2"
    /\ preserve_order = "Dark"
    /\ image = NoImage
    /\ gray_image = NoImage
    /\ width = 0
    /\ height = 0
    /\ output_image = NoImage
    /\ writes = <<>>
    /\ x = 0
    /\ y = 0
    /\ pc = "lum"
    /\ rerun = FALSE
    /\ prev_output = NoImage
    /\ prev_order = "NA"
    /\ pixel \in LumStarts \X LumStarts \X LumStarts
    /\ luminance = compute_luminance(pixel)

NearStart(v) == \E s \in LumStarts : s <= v /\ v <= s + LumSteps

Brighten(c) ==
    /\ pc = "lum"
    /\ pixel[c] < 255
    /\ pixel' = [pixel EXCEPT ![c] = @ + 1]
    /\ \/ \A d \in {1, 2, 3} : NearStart(pixel'[d])
       \/ \A d \in {1, 2, 3} \ {c} : pixel[d] \in LumStarts
    /\ luminance' = compute_luminance(pixel')
    /\ UNCHANGED <<color, bayer_option, preserve_order, image, gray_image, width,
                   height, output_image, writes, x, y, pc, rerun, prev_output,
                   prev_order>>

BrightenR == Brighten(1)

BrightenG == Brighten(2)

BrightenB == Brighten(3)

LumNext == BrightenR \/ BrightenG \/ BrightenB

LumSpec == LumInit /\ [][LumNext]_vars

(***************************************************************************)
(* Properties.                                                             *)
(***************************************************************************)
Order(option) == SelectMatrix(option)[2]

\* the cell of the selected matrix that tiles onto (px, py)
Cell(option, px, py) ==
    SelectMatrix(option)[1][(py % Order(option)) * Order(option) + (px % Order(option)) + 1]

Pixels == Coordinates(image.width, image.height)

Written == {p \in DOMAIN writes : writes[p] > 0}

\* C1: in the grayscale ditherer every pixel put so far is 255 if the
\* grayscale intensity at its coordinate is strictly greater than
\* matrix[(y mod o)*o + (x mod o)] and 0 otherwise (so 0 on equality).
C1_GrayThreshold ==
    (~color /\ pc \in {"loop", "done"}) =>
        \A p \in Written :
            /\ output_image.data[p] =
                   <<IF gray_image.data[p][1] > Cell(bayer_option, p[1], p[2])
                     THEN 255 ELSE 0>>
            /\ output_image.data[p][1] \in {0, 255}

C1_Witness ==
    /\ ~color
    /\ pc = "done"
    /\ \E p \in Pixels :
          /\ gray_image.data[p][1] = Cell(bayer_option, p[1], p[2])
          /\ Cell(bayer_option, p[1], p[2]) > 0
          /\ output_image.data[p] = <<0>>
    /\ \E p \in Pixels : output_image.data[p] = <<255>>

\* C2: the image returned by the color ditherer has, at every pixel, the
\* input's R, G and B and the alpha that the policy gives to
\* intensity = compute_luminance(R, G, B) against the tiled threshold:
\* favor-light 255 if intensity > threshold else 0, favor-dark 0 if
\* intensity > threshold else 255.
C2_ColorAlpha ==
    (color /\ pc = "done") =>
        \A p \in Pixels :
            LET in        == image.data[p]
                intensity == compute_luminance(<<in[1], in[2], in[3]>>)
                threshold == Cell(bayer_option, p[1], p[2])
                alpha     == IF preserve_order = "Light"
                             THEN (IF intensity > threshold THEN 255 ELSE 0)
                             ELSE (IF intensity > threshold THEN 0 ELSE 255)
            IN  output_image.data[p] = <<in[1], in[2], in[3], alpha>>

C2_Witness ==
    /\ color
    /\ pc = "done"
    /\ preserve_order = "Dark"
    /\ bayer_option = "M4"
    /\ \E p \in Pixels : image.data[p][1] # image.data[p][2] /\ output_image.data[p][4] = 255
    /\ \E p \in Pixels : image.data[p][1] # image.data[p][2] /\ output_image.data[p][4] = 0

\* C3: the color ditherer run on the same image with the same matrix under
\* the two policies returns the same R, G and B at every pixel and alphas
\* that are complements: one is 255 exactly where the other is 0.
C3_PoliciesComplement ==
    (color /\ pc = "done" /\ rerun /\ prev_order # preserve_order) =>
        \A p \in Pixels :
            LET a == output_image.data[p]
                b == prev_output.data[p]
            IN  /\ <<a[1], a[2], a[3]>> = <<b[1], b[2], b[3]>>
                /\ {a[4], b[4]} = {0, 255}

C3_Witness ==
    /\ color
    /\ pc = "done"
    /\ rerun
    /\ prev_order = "Light"
    /\ preserve_order = "Dark"
    /\ \E p \in Pixels : output_image.data[p][4] = 255 /\ prev_output.data[p][4] = 0
    /\ \E p \in Pixels : output_image.data[p][4] = 0 /\ prev_output.data[p][4] = 255

\* C4: at every pixel the loop visits, the threshold index is
\* (y mod o)*o + (x mod o), lies in [0, o*o) and is inside the selected
\* matrix, whose length is o*o.
C4_IndexInRange ==
    pc = "loop" =>
        LET sel   == SelectMatrix(bayer_option)
            index == ThresholdIndex(x, y, sel[2])
        IN  /\ sel[2] \in {2, 4, 8}
            /\ Len(sel[1]) = sel[2] * sel[2]
            /\ index = (y % sel[2]) * sel[2] + (x % sel[2])
            /\ 0 <= index
            /\ index < sel[2] * sel[2]
            /\ index < Len(sel[1])

C4_Witness ==
    /\ pc = "loop"
    /\ bayer_option = "M8"
    /\ x = 8
    /\ y = 7
    /\ ThresholdIndex(x, y, 8) = 56

\* C5: the buffer a ditherer allocates and returns has the width and the
\* height of the input, also for empty inputs, and when the pass has
\* finished every one of its pixels has been put exactly once.
C5_SameDimensions ==
    /\ pc \in {"loop", "done"} =>
          /\ output_image.width = image.width
          /\ output_image.height = image.height
          /\ DOMAIN output_image.data = Pixels
    /\ pc = "done" => \A p \in Pixels : p \in DOMAIN writes /\ writes[p] = 1

C5_Witness ==
    /\ pc = "done"
    /\ ~color
    /\ image.width = 3
    /\ image.height = 5
    /\ output_image.width = 3
    /\ output_image.height = 5
    /\ \A p \in Pixels : writes[p] = 1

\* the integers nearest to 0.299*R + 0.587*G + 0.114*B = n/1000, clamped into
\* [0, 255]: one integer, or the two neighbours when n/1000 lies halfway
NearestLuma(p) ==
    LET n  == 299 * p[1] + 587 * p[2] + 114 * p[3]
        lo == IF n % 1000 <= 500 THEN n \div 1000 ELSE n \div 1000 + 1
        hi == IF n % 1000 < 500 THEN n \div 1000 ELSE n \div 1000 + 1
    IN  {IF v > 255 THEN 255 ELSE v : v \in {lo, hi}}

\* C6: compute_luminance returns 0.299*R + 0.587*G + 0.114*B rounded to
\* the nearest integer (either neighbour on a tie) and clamped into [0, 255].
C6_RoundsToNearest == pc = "lum" => luminance \in NearestLuma(pixel)

\* C7: compute_luminance never decreases when one channel is made
\* brighter with the other two held fixed, is 255 for (255,255,255) and
\* is 0 for (0,0,0).
C7_Monotonic ==
    /\ [][luminance' >= luminance]_vars
    /\ [](pixel = <<255, 255, 255>> => luminance = 255)
    /\ [](pixel = <<0, 0, 0>> => luminance = 0)

C7_Witness ==
    /\ pc = "lum"
    /\ pixel = <<255, 255, 255>>
    /\ luminance = 255

\* C8: whichever of the three matrices a run selects, its o*o cells hold
\* pairwise distinct values, all in [0, 255].
C8_MatricesArePermutations ==
    LET m == SelectMatrix(bayer_option)[1]
    IN  /\ \A i \in DOMAIN m : m[i] \in 0 .. 255
        /\ \A i, j \in DOMAIN m : i # j => m[i] # m[j]

\* C9: the grayscale ditherer on a uniform image returns all 255 when the
\* intensity is strictly greater than every threshold of the selected
\* matrix and all 0 when it is not above any of them; a 2x2 image of
\* intensity 128 with order 2 gives 255 at all four pixels.
C9_UniformImage ==
    (~color /\ pc = "done") =>
        /\ \A v \in 0 .. 255 :
              (\A p \in Pixels : gray_image.data[p] = <<v>>) =>
                  LET m == SelectMatrix(bayer_option)[1]
                  IN  /\ (\A i \in DOMAIN m : v > m[i]) =>
                             \A p \in Pixels : output_image.data[p] = <<255>>
                      /\ (\A i \in DOMAIN m : v <= m[i]) =>
                             \A p \in Pixels : output_image.data[p] = <<0>>
        /\ ( /\ bayer_option = "M2"
             /\ image.width = 2
             /\ image.height = 2
             /\ \A p \in Pixels : gray_image.data[p] = <<128>> ) =>
               \A p \in Pixels : output_image.data[p] = <<255>>

C9_Witness ==
    /\ ~color
    /\ pc = "done"
    /\ bayer_option = "M2"
    /\ image.width = 2
    /\ image.height = 2
    /\ \A p \in Pixels : gray_image.data[p] = <<128>>
    /\ \A p \in Pixels : output_image.data[p] = <<255>>

\* C10: no step writes the input image, and a pass that puts the pixels
\* in any order, each once, ends in the buffer the row-major pass on the
\* same input, matrix and policy returned; so does a second row-major
\* pass.
C10_OrderIndependent ==
    /\ [][image' = image]_vars
    /\ []((pc = "done" /\ rerun /\ prev_order = preserve_order) =>
              output_image = prev_output)

C10_Witness ==
    /\ pc = "done"
    /\ rerun
    /\ prev_order = preserve_order
    /\ x = 0
    /\ y = 0
    /\ image.width = 2
    /\ image.height = 2
    /\ output_image = prev_output
    /\ \E p, q \in Pixels : output_image.data[p] # output_image.data[q]
====
